---- MODULE Spec2Model ----
(***************************************************************************)
(* A model of src/src/components/App.jsx, the ASMR prompt generator: the   *)
(* form state, the preset table, the JSON builder with its serialisation,  *)
(* the self-test validator, the theme controller and the copy label.       *)
(*                                                                         *)
(* Texts are sequences of atoms.  An atom is one character of the text;    *)
(* a run of ordinary characters that the program never looks inside (an    *)
(* option name, a key) is kept as one atom.  The characters JSON treats    *)
(* specially (quote, backslash, brackets, colon, comma, white space) are   *)
(* always atoms of their own.                                              *)
(***************************************************************************)
EXTENDS Integers, Sequences, FiniteSets, TLC

\* ------------------------------------------------------------------ bounds

\* Longest idea text the user types, in characters.
MaxIdeaLen == 1
\* Inputs of the user (an edit of the idea, of a select or of a chip, a
\* preset, a click on Copy) in one behaviour of SpecForm, of Spec and
\* SpecCopy, and of SpecTheme and SpecUI.
MaxFormEdits == 3
MaxEdits == 2
MaxUIEdits == 1

\* ------------------------------------------------------------ option lists

MOODS == <<"Calm", "Cozy", "Mysterious", "Ethereal", "Melancholy", "Dreamy">>
CAMERA_MOVEMENTS == <<"Static", "Slow Pan", "Slow Zoom In", "Slow Zoom Out", "Dolly", "Handheld">>
CAMERA_ANGLES == <<"Eye-level", "Low Angle", "High Angle", "Dutch Angle", "Close-up", "Wide Shot">>
CAMERA_FOCUS == <<"Soft Focus", "Deep Focus", "Rack Focus", "Shallow Depth of Field">>
PRIMARY_SOUNDS == <<"Rain", "Fireplace", "Wind", "Ocean Waves", "Forest Ambience", "Keyboard Typing", "None">>
SECONDARY_SOUNDS == <<"Thunder", "Birds Chirping", "Pages Turning", "Whispering", "Ticking Clock", "Purring Cat">>
SOUND_QUALITIES == <<"High-Fidelity (Binaural)", "Lo-fi", "Muffled", "Crisp">>
VISUAL_EFFECTS == <<"Soft Glow", "Fog", "Muted Tones", "Film Grain", "Lens Flare", "Dust Particles">>

PRESETS ==
  << [name |-> "Forest Rain",
      settings |-> [moods |-> <<"Calm", "Melancholy">>,
                    cameraMovement |-> "Slow Zoom In",
                    cameraAngle |-> "Low Angle",
                    cameraFocus |-> "Soft Focus",
                    soundscapePrimary |-> "Rain",
                    soundscapeSecondary |-> <<"Thunder", "Wind">>,
                    soundscapeQuality |-> "High-Fidelity (Binaural)",
                    visualEffects |-> <<"Fog", "Muted Tones">>]],
     [name |-> "Cozy Fireplace",
      settings |-> [moods |-> <<"Cozy", "Calm">>,
                    cameraMovement |-> "Static",
                    cameraAngle |-> "Eye-level",
                    cameraFocus |-> "Shallow Depth of Field",
                    soundscapePrimary |-> "Fireplace",
                    soundscapeSecondary |-> <<"Ticking Clock", "Purring Cat">>,
                    soundscapeQuality |-> "High-Fidelity (Binaural)",
                    visualEffects |-> <<"Soft Glow", "Film Grain">>]],
     [name |-> "Late Night Study",
      settings |-> [moods |-> <<"Calm", "Cozy">>,
                    cameraMovement |-> "Slow Pan",
                    cameraAngle |-> "High Angle",
                    cameraFocus |-> "Rack Focus",
                    soundscapePrimary |-> "Keyboard Typing",
                    soundscapeSecondary |-> <<"Pages Turning", "Whispering">>,
                    soundscapeQuality |-> "Crisp",
                    visualEffects |-> <<"Soft Glow", "Dust Particles">>]],
     [name |-> "Ethereal Dream",
      settings |-> [moods |-> <<"Ethereal", "Dreamy", "Mysterious">>,
                    cameraMovement |-> "Dolly",
                    cameraAngle |-> "Wide Shot",
                    cameraFocus |-> "Soft Focus",
                    soundscapePrimary |-> "Wind",
                    soundscapeSecondary |-> <<>>,
                    soundscapeQuality |-> "Muffled",
                    visualEffects |-> <<"Soft Glow", "Fog", "Muted Tones">>]] >>

initialState ==
  [idea |-> <<>>,
   moods |-> <<>>,
   cameraMovement |-> CAMERA_MOVEMENTS[1],
   cameraAngle |-> CAMERA_ANGLES[1],
   cameraFocus |-> CAMERA_FOCUS[1],
   soundscapePrimary |-> PRIMARY_SOUNDS[1],
   soundscapeSecondary |-> <<>>,
   soundscapeQuality |-> SOUND_QUALITIES[1],
   visualEffects |-> <<>>]

\* localStorage.getItem of a key that is absent.
NULL == "<null>"

\* The generatedJson state: null, or a text.
NullJson == [isNull |-> TRUE, text |-> <<>>]
JsonText(text) == [isNull |-> FALSE, text |-> text]
\* `!g` of JavaScript: null and the empty string are falsy.
Falsy(g) == g.isNull \/ g.text = <<>>

\* --------------------------------------------------------------- sequences

Range(s) == {s[i] : i \in 1..Len(s)}

\* Array.prototype.includes
Includes(s, x) == \E i \in 1..Len(s) : s[i] = x

\* Array.prototype.filter(i => i !== x)
RECURSIVE FilterOut(_, _)
FilterOut(s, x) ==
  IF s = <<>> THEN <<>>
  ELSE IF Head(s) = x THEN FilterOut(Tail(s), x)
       ELSE <<Head(s)>> \o FilterOut(Tail(s), x)

RECURSIVE Flatten(_)
Flatten(ss) == IF ss = <<>> THEN <<>> ELSE Head(ss) \o Flatten(Tail(ss))

NoDuplicates(s) == \A i, j \in 1..Len(s) : s[i] = s[j] => i = j

\* -------------------------------------------------------------- JSON values

\* A JavaScript value as JSON sees it: t is its type, s the characters of a
\* string (or the digits of a number), items the elements of an array or the
\* members (k, v) of an object, in insertion order.
JStr(s) == [t |-> "str", s |-> s, items |-> <<>>]
JNum(s) == [t |-> "num", s |-> s, items |-> <<>>]
JLit(name) == [t |-> name, s |-> <<>>, items |-> <<>>]
JArr(items) == [t |-> "arr", s |-> <<>>, items |-> items]
JObj(members) == [t |-> "obj", s |-> <<>>, items |-> members]
JUndefined == JLit("undefined")

\* An array of strings, each an option name.
JStrings(names) == JArr([i \in 1..Len(names) |-> JStr(<<names[i]>>)])

QUOTE == "\""
BACKSLASH == "\\"
WhiteSpace == {" ", "\n", "\t", "\r"}
Digits == {"0", "1", "2", "3", "4", "5", "6", "7", "8", "9"}

\* ------------------------------------------------- JSON.stringify(v, null, 2)

\* A serialiser that writes every character as it is.
EscapeCharNone(c) == <<c>>

\* One character of a string, as JSON.stringify writes it.
EscapeChar(c) ==
  CASE c = QUOTE -> <<BACKSLASH, QUOTE>>
    [] c = BACKSLASH -> <<BACKSLASH, BACKSLASH>>
    [] c = "\n" -> <<BACKSLASH, "n">>
    [] c = "\t" -> <<BACKSLASH, "t">>
    [] c = "\r" -> <<BACKSLASH, "r">>
    [] OTHER -> <<c>>

QuoteString(s) ==
  <<QUOTE>> \o Flatten([i \in 1..Len(s) |-> EscapeChar(s[i])]) \o <<QUOTE>>

Indent(n) == [i \in 1..n |-> " "]

\* Lines joined by a comma, each on its own line at the given indentation.
RECURSIVE JoinLines(_, _)
JoinLines(lines, ind) ==
  IF lines = <<>> THEN <<>>
  ELSE <<"\n">> \o Indent(ind) \o Head(lines)
       \o (IF Len(lines) > 1 THEN <<",">> ELSE <<>>)
       \o JoinLines(Tail(lines), ind)

\* The members JSON.stringify writes: those whose value is not undefined.
RECURSIVE Defined(_)
Defined(members) ==
  IF members = <<>> THEN <<>>
  ELSE IF Head(members).v.t = "undefined" THEN Defined(Tail(members))
       ELSE <<Head(members)>> \o Defined(Tail(members))

RECURSIVE StringifyAt(_, _)
StringifyAt(v, ind) ==
  CASE v.t = "str" -> QuoteString(v.s)
    [] v.t = "num" -> v.s
    [] v.t = "arr" ->
         IF v.items = <<>> THEN <<"[", "]">>
         ELSE <<"[">>
              \o JoinLines([i \in 1..Len(v.items) |->
                              StringifyAt(v.items[i], ind + 2)], ind + 2)
              \o <<"\n">> \o Indent(ind) \o <<"]">>
    [] v.t = "obj" ->
         LET ms == Defined(v.items) IN
         IF ms = <<>> THEN <<"{", "}">>
         ELSE <<"{">>
              \o JoinLines([i \in 1..Len(ms) |->
                              QuoteString(ms[i].k) \o <<":", " ">>
                              \o StringifyAt(ms[i].v, ind + 2)], ind + 2)
              \o <<"\n">> \o Indent(ind) \o <<"}">>
    [] OTHER -> <<v.t>>

JsonStringify(v) == StringifyAt(v, 0)

\* --------------------------------------------------------------- JSON.parse

\* The result of a parsing step: the value read and the position after it,
\* or a failure (JSON.parse throws SyntaxError).
Parsed(v, pos) == [ok |-> TRUE, val |-> v, pos |-> pos]
SyntaxError == [ok |-> FALSE, val |-> JUndefined, pos |-> 0]

RECURSIVE SkipWs(_, _)
SkipWs(text, pos) ==
  IF pos <= Len(text) /\ text[pos] \in WhiteSpace THEN SkipWs(text, pos + 1)
  ELSE pos

\* The characters of a string up to its closing quote; pos is after the
\* opening quote.
RECURSIVE ReadChars(_, _, _)
ReadChars(text, pos, acc) ==
  IF pos > Len(text) THEN SyntaxError
  ELSE LET c == text[pos] IN
    CASE c = QUOTE -> Parsed(JStr(acc), pos + 1)
      [] c = BACKSLASH ->
           IF pos + 1 > Len(text) THEN SyntaxError
           ELSE LET e == text[pos + 1] IN
             CASE e \in {QUOTE, BACKSLASH, "/"} ->
                    ReadChars(text, pos + 2, Append(acc, e))
               [] e = "n" -> ReadChars(text, pos + 2, Append(acc, "\n"))
               [] e = "t" -> ReadChars(text, pos + 2, Append(acc, "\t"))
               [] e = "r" -> ReadChars(text, pos + 2, Append(acc, "\r"))
               [] OTHER -> SyntaxError
      [] c \in {"\n", "\t", "\r"} -> SyntaxError
      [] OTHER -> ReadChars(text, pos + 1, Append(acc, c))

RECURSIVE ReadDigits(_, _, _)
ReadDigits(text, pos, acc) ==
  IF pos <= Len(text) /\ text[pos] \in Digits
  THEN ReadDigits(text, pos + 1, Append(acc, text[pos]))
  ELSE IF Len(acc) > 1 /\ acc[1] = "0" THEN SyntaxError
       ELSE Parsed(JNum(acc), pos)

RECURSIVE ParseValue(_, _)
RECURSIVE ParseElements(_, _, _)
RECURSIVE ParseMembers(_, _, _)

ParseValue(text, pos) ==
  LET p == SkipWs(text, pos) IN
  IF p > Len(text) THEN SyntaxError
  ELSE LET c == text[p] IN
    CASE c = "{" -> ParseMembers(text, p + 1, <<>>)
      [] c = "[" -> ParseElements(text, p + 1, <<>>)
      [] c = QUOTE -> ReadChars(text, p + 1, <<>>)
      [] c \in Digits -> ReadDigits(text, p, <<>>)
      [] c \in {"null", "true", "false"} -> Parsed(JLit(c), p + 1)
      [] OTHER -> SyntaxError

\* The elements of an array; pos is after "[" or after a comma.
ParseElements(text, pos, acc) ==
  LET p == SkipWs(text, pos) IN
  IF p > Len(text) THEN SyntaxError
  ELSE IF acc = <<>> /\ text[p] = "]" THEN Parsed(JArr(<<>>), p + 1)
  ELSE LET r == ParseValue(text, p) IN
    IF ~r.ok THEN SyntaxError
    ELSE LET q == SkipWs(text, r.pos) IN
      IF q > Len(text) THEN SyntaxError
      ELSE CASE text[q] = "," -> ParseElements(text, q + 1, Append(acc, r.val))
             [] text[q] = "]" -> Parsed(JArr(Append(acc, r.val)), q + 1)
             [] OTHER -> SyntaxError

\* The members of an object; pos is after "{" or after a comma.
ParseMembers(text, pos, acc) ==
  LET p == SkipWs(text, pos) IN
  IF p > Len(text) THEN SyntaxError
  ELSE IF acc = <<>> /\ text[p] = "}" THEN Parsed(JObj(<<>>), p + 1)
  ELSE IF text[p] # QUOTE THEN SyntaxError
  ELSE LET k == ReadChars(text, p + 1, <<>>) IN
    IF ~k.ok THEN SyntaxError
    ELSE LET c == SkipWs(text, k.pos) IN
      IF c > Len(text) \/ text[c] # ":" THEN SyntaxError
      ELSE LET r == ParseValue(text, c + 1) IN
        IF ~r.ok THEN SyntaxError
        ELSE LET q == SkipWs(text, r.pos)
                 m == Append(acc, [k |-> k.val.s, v |-> r.val]) IN
          IF q > Len(text) THEN SyntaxError
          ELSE CASE text[q] = "," -> ParseMembers(text, q + 1, m)
                 [] text[q] = "}" -> Parsed(JObj(m), q + 1)
                 [] OTHER -> SyntaxError

\* JSON.parse(text): the value, or a SyntaxError when the text is no JSON
\* or is followed by anything but white space.
JsonParse(text) ==
  LET r == ParseValue(text, 1) IN
  IF r.ok /\ SkipWs(text, r.pos) = Len(text) + 1 THEN r ELSE SyntaxError

\* ------------------------------------------------- property access and `in`

\* Positions of the members of an object named key.
MembersNamed(v, key) == {i \in 1..Len(v.items) : v.items[i].k = key}

Max(S) == CHOOSE x \in S : \A y \in S : y <= x

\* `v.key` for a key that is no index and no built-in property: the member
\* written last under that name, undefined when there is none (also on an
\* array, a string, a number or a boolean).  On null and undefined the
\* access throws; the callers never reach it there.
GetProp(v, key) ==
  IF v.t = "obj" /\ MembersNamed(v, <<key>>) # {}
  THEN v.items[Max(MembersNamed(v, <<key>>))].v
  ELSE JUndefined

\* `key in v` throws TypeError unless v is an object (or an array).
InThrows(v) == v.t \notin {"obj", "arr"}

\* `key in v` for a key that is no index and no built-in property.
InOp(key, v) == v.t = "obj" /\ MembersNamed(v, <<key>>) # {}

\* ---------------------------------------------------------------- the state

VARIABLES
  formState,         \* useState(initialState)
  generatedJson,     \* useState(null)
  validationStatus,  \* useState('unchecked')
  copyButtonText,    \* useState('Copy')
  theme,             \* useState(localStorage.getItem(...) || 'dark')
  effectiveTheme,    \* useState(theme)
  dataTheme,         \* the data-theme attribute of the document element
  storedTheme,       \* localStorage['asmr-veo-theme']
  osDark,            \* matchMedia('(prefers-color-scheme: dark)').matches
  listeners,         \* the change listeners on the media query, each the
                     \* theme its closure captured
  mounted,           \* the effect of the first render has run
  pendingWrites,     \* clipboard writes not yet resolved, oldest first
  clipboard,         \* the text on the clipboard
  timers,            \* the time left on each pending setTimeout, oldest first
  budget,            \* inputs of the user left in this behaviour
  hist               \* the last operation, for stating the properties

vars == <<formState, generatedJson, validationStatus, copyButtonText, theme,
          effectiveTheme, dataTheme, storedTheme, osDark, listeners, mounted,
          pendingWrites, clipboard, timers, budget, hist>>

themeVars == <<theme, effectiveTheme, dataTheme, storedTheme, osDark,
               listeners, mounted>>
copyVars == <<copyButtonText, pendingWrites, clipboard, timers>>

\* The last operation on the form or the theme (the copy label's steps
\* leave it alone): op names it; p is the preset applied and pre the form
\* before it; field, item and prior describe a chip toggle (n = 1: a first
\* toggle of the chip, prior the field before it; n = 2: the toggle of the
\* same chip right after it, prior still the field before the first); file
\* is the file a download hands to the browser.
Hist(op) == [op |-> op, p |-> 0, pre |-> initialState,
             field |-> "", item |-> "", prior |-> <<>>, n |-> 0,
             file |-> [name |-> <<>>, content |-> <<>>]]

\* ------------------------------------------------------------------ inputs

IdeaChars == {"A", " ", QUOTE, BACKSLASH}

\* The value of the idea input after a keystroke: a character typed at the
\* end, or the last character deleted.
Keystrokes(idea) ==
  {Append(idea, c) : c \in IF Len(idea) < MaxIdeaLen THEN IdeaChars ELSE {}}
  \cup (IF idea = <<>> THEN {} ELSE {SubSeq(idea, 1, Len(idea) - 1)})

\* The entries of an option list the user picks from where the whole form
\* workflow is explored: the first and the last.
Picks(list) == {list[1], list[Len(list)]}

\* The single-valued fields with the option list of their select.
SelectOptions ==
  [cameraMovement |-> CAMERA_MOVEMENTS,
   cameraAngle |-> CAMERA_ANGLES,
   cameraFocus |-> CAMERA_FOCUS,
   soundscapePrimary |-> PRIMARY_SOUNDS,
   soundscapeQuality |-> SOUND_QUALITIES]

\* The multi-valued fields with the chips of their group.
ChipItems ==
  [moods |-> MOODS,
   soundscapeSecondary |-> SECONDARY_SOUNDS,
   visualEffects |-> VISUAL_EFFECTS]

\* -------------------------------------------------------------- form edits

\* handleInputChange also marking the generated JSON as not checked.
HandleInputChangeUnchecks(value) ==
  /\ mounted /\ budget > 0
  /\ formState' = [formState EXCEPT !.idea = value]
  /\ validationStatus' = "unchecked"
  /\ budget' = budget - 1
  /\ hist' = Hist("input")
  /\ UNCHANGED generatedJson
  /\ UNCHANGED themeVars /\ UNCHANGED copyVars

\* handleInputChange: the only input with a name is the idea.
HandleInputChange(value) ==
  /\ mounted /\ budget > 0
  /\ formState' = [formState EXCEPT !.idea = value]
  /\ budget' = budget - 1
  /\ hist' = Hist("input")
  /\ UNCHANGED <<generatedJson, validationStatus>>
  /\ UNCHANGED themeVars /\ UNCHANGED copyVars

\* The onChange of a select: the value is one of its options.
SelectChange(field, value) ==
  /\ mounted /\ budget > 0
  /\ formState' = [formState EXCEPT ![field] = value]
  /\ budget' = budget - 1
  /\ hist' = Hist("select")
  /\ UNCHANGED <<generatedJson, validationStatus>>
  /\ UNCHANGED themeVars /\ UNCHANGED copyVars

\* toggleMultiSelect without the includes test: the item is always added.
ToggledAlwaysAdds(currentSelection, item) == Append(currentSelection, item)

\* toggleMultiSelect removing the last entry instead of the item.
ToggledDropsLast(currentSelection, item) ==
  IF Includes(currentSelection, item)
  THEN SubSeq(currentSelection, 1, Len(currentSelection) - 1)
  ELSE Append(currentSelection, item)

\* The new selection of toggleMultiSelect.
Toggled(currentSelection, item) ==
  IF Includes(currentSelection, item)
  THEN FilterOut(currentSelection, item)
  ELSE Append(currentSelection, item)

ToggleMultiSelect(item, field) ==
  /\ mounted /\ budget > 0
  /\ formState' = [formState EXCEPT ![field] = Toggled(formState[field], item)]
  /\ budget' = budget - 1
  /\ hist' = IF /\ hist.op = "toggle" /\ hist.n = 1
                /\ hist.field = field /\ hist.item = item
             THEN [hist EXCEPT !.n = 2]
             ELSE [Hist("toggle") EXCEPT !.field = field, !.item = item,
                                         !.prior = formState[field], !.n = 1]
  /\ UNCHANGED <<generatedJson, validationStatus>>
  /\ UNCHANGED themeVars /\ UNCHANGED copyVars

\* The spread written the other way round: { ...settings, ...prev }
MergePrevWins(prev, settings) ==
  [f \in DOMAIN prev \cup DOMAIN settings |->
     IF f \in DOMAIN prev THEN prev[f] ELSE settings[f]]

\* { ...prev, ...settings }
Merge(prev, settings) ==
  [f \in DOMAIN prev \cup DOMAIN settings |->
     IF f \in DOMAIN settings THEN settings[f] ELSE prev[f]]

HandleApplyPreset(p) ==
  /\ mounted /\ budget > 0
  /\ formState' = Merge(formState, PRESETS[p].settings)
  /\ budget' = budget - 1
  /\ hist' = [Hist("preset") EXCEPT !.p = p, !.pre = formState]
  /\ UNCHANGED <<generatedJson, validationStatus>>
  /\ UNCHANGED themeVars /\ UNCHANGED copyVars

\* ------------------------------------------------------- generate and reset

\* The jsonObject of handleGenerateJson.
BuildJson(fs) ==
  JObj(<< [k |-> <<"title">>, v |-> JStr(fs.idea)],
          [k |-> <<"description">>,
           v |-> JStr(<<"An ASMR-style video about: ">> \o fs.idea \o <<".">>)],
          [k |-> <<"style">>, v |-> JStr(<<"ASMR">>)],
          [k |-> <<"mood">>, v |-> JStrings(fs.moods)],
          [k |-> <<"camera">>,
           v |-> JObj(<< [k |-> <<"movement">>, v |-> JStr(<<fs.cameraMovement>>)],
                         [k |-> <<"angle">>, v |-> JStr(<<fs.cameraAngle>>)],
                         [k |-> <<"focus">>, v |-> JStr(<<fs.cameraFocus>>)] >>)],
          [k |-> <<"soundscape">>,
           v |-> JObj(<< [k |-> <<"primary">>, v |-> JStr(<<fs.soundscapePrimary>>)],
                         [k |-> <<"secondary">>, v |-> JStrings(fs.soundscapeSecondary)],
                         [k |-> <<"quality">>, v |-> JStr(<<fs.soundscapeQuality>>)] >>)],
          [k |-> <<"visual_effects">>, v |-> JStrings(fs.visualEffects)] >>)

HandleGenerateJson ==
  /\ mounted
  /\ generatedJson' = JsonText(JsonStringify(BuildJson(formState)))
  /\ validationStatus' = "unchecked"
  /\ hist' = IF hist.op = "preset" THEN [hist EXCEPT !.op = "presetgen"]
             ELSE Hist("generate")
  /\ UNCHANGED <<formState, budget>>
  /\ UNCHANGED themeVars /\ UNCHANGED copyVars

\* handleReset without setGeneratedJson(null).
HandleResetKeepsJson ==
  /\ mounted
  /\ formState' = initialState
  /\ validationStatus' = "unchecked"
  /\ hist' = Hist("reset")
  /\ UNCHANGED <<generatedJson, budget>>
  /\ UNCHANGED themeVars /\ UNCHANGED copyVars

HandleReset ==
  /\ mounted
  /\ formState' = initialState
  /\ generatedJson' = NullJson
  /\ validationStatus' = "unchecked"
  /\ hist' = Hist("reset")
  /\ UNCHANGED budget
  /\ UNCHANGED themeVars /\ UNCHANGED copyVars

\* ---------------------------------------------------------------- self-test

requiredKeys ==
  <<"title", "description", "style", "mood", "camera", "soundscape", "visual_effects">>

\* requiredKeys.some(...) in place of every.
hasSomeKey(parsed) == \E i \in 1..Len(requiredKeys) : InOp(requiredKeys[i], parsed)

\* requiredKeys.every(key => key in parsed): every stops at the first key
\* that is missing.
hasAllKeys(parsed) == \A i \in 1..Len(requiredKeys) : InOp(requiredKeys[i], parsed)

\* "a" in o && "b" in o && "c" in o
KeysOk(o, a, b, c) == InOp(a, o) /\ InOp(b, o) /\ InOp(c, o)

\* The body of the try block: the status it sets, or "throws" when a
\* statement of it throws (a SyntaxError of JSON.parse, a TypeError of `in`).
TryBlock(text) ==
  LET r == JsonParse(text) IN
  IF ~r.ok THEN "throws"
  ELSE LET parsed == r.val
           camera == GetProp(parsed, "camera")
           soundscape == GetProp(parsed, "soundscape") IN
    IF InThrows(parsed) THEN "throws"
    ELSE IF InThrows(camera) THEN "throws"
    ELSE IF InThrows(soundscape) THEN "throws"
    ELSE IF /\ hasAllKeys(parsed)
            /\ KeysOk(camera, "movement", "angle", "focus")
            /\ KeysOk(soundscape, "primary", "secondary", "quality")
         THEN "valid" ELSE "invalid"

\* The validation status handleSelfTest leaves, given the one before it.
SelfTestStatus(g, status) ==
  IF Falsy(g) THEN status
  ELSE IF TryBlock(g.text) = "throws" THEN "invalid"
  ELSE TryBlock(g.text)

\* handleSelfTest.
RunSelfTest ==
  /\ mounted
  /\ validationStatus' = SelfTestStatus(generatedJson, validationStatus)
  /\ hist' = Hist("selftest")
  /\ UNCHANGED <<formState, generatedJson, budget>>
  /\ UNCHANGED themeVars /\ UNCHANGED copyVars

\* The Run Self-Test button is rendered when generatedJson is truthy.
HandleSelfTest == ~Falsy(generatedJson) /\ RunSelfTest

\* ----------------------------------------------------------------- download

\* String.prototype.trim
RECURSIVE TrimStart(_)
TrimStart(s) ==
  IF s # <<>> /\ Head(s) \in WhiteSpace THEN TrimStart(Tail(s)) ELSE s

RECURSIVE TrimEnd(_)
TrimEnd(s) ==
  IF s # <<>> /\ s[Len(s)] \in WhiteSpace THEN TrimEnd(SubSeq(s, 1, Len(s) - 1))
  ELSE s

Trim(s) == TrimEnd(TrimStart(s))

\* String.prototype.toLowerCase
ToLowerCase(s) == [i \in 1..Len(s) |-> IF s[i] = "A" THEN "a" ELSE s[i]]

\* replace(/\s+/g, '_')
RECURSIVE ReplaceSpaces(_)
ReplaceSpaces(s) ==
  IF s = <<>> THEN <<>>
  ELSE IF Head(s) \in WhiteSpace
       THEN <<"_">> \o ReplaceSpaces(TrimStart(s))
       ELSE <<Head(s)>> \o ReplaceSpaces(Tail(s))

FileName(idea) ==
  LET fileName == ReplaceSpaces(ToLowerCase(Trim(idea))) IN
  (IF fileName = <<>> THEN <<"prompt">> ELSE fileName) \o <<".json">>

\* The Download button is rendered when generatedJson is truthy.
HandleDownloadJson ==
  /\ mounted /\ ~Falsy(generatedJson)
  /\ hist' = [Hist("download") EXCEPT
                !.file = [name |-> FileName(formState.idea),
                          content |-> generatedJson.text]]
  /\ UNCHANGED <<formState, generatedJson, validationStatus, budget>>
  /\ UNCHANGED themeVars /\ UNCHANGED copyVars

\* ------------------------------------------------------- the form workflow

\* The state once the first render and its effect have run, with nothing
\* stored for the theme, and the given number of inputs to come.
Started(inputs) ==
  /\ formState = initialState
  /\ generatedJson = NullJson
  /\ validationStatus = "unchecked"
  /\ copyButtonText = "Copy"
  /\ storedTheme = NULL
  /\ theme = "dark"
  /\ effectiveTheme = "dark"
  /\ dataTheme = NULL
  /\ osDark = TRUE
  /\ listeners = <<>>
  /\ mounted = TRUE
  /\ pendingWrites = <<>>
  /\ clipboard = <<>>
  /\ timers = <<>>
  /\ budget = inputs
  /\ hist = Hist("init")

Init == Started(MaxEdits)

\* The form alone: edits, presets and reset.
InitForm == Started(MaxFormEdits)

NextForm ==
  \/ \E value \in Keystrokes(formState.idea) : HandleInputChange(value)
  \/ \E field \in DOMAIN SelectOptions :
       \E value \in Range(SelectOptions[field]) : SelectChange(field, value)
  \/ \E field \in DOMAIN ChipItems :
       \E item \in Range(ChipItems[field]) : ToggleMultiSelect(item, field)
  \/ \E p \in 1..Len(PRESETS) : HandleApplyPreset(p)
  \/ HandleReset

SpecForm == InitForm /\ [][NextForm]_vars

Next ==
  \/ \E value \in Keystrokes(formState.idea) : HandleInputChange(value)
  \/ \E field \in DOMAIN SelectOptions :
       \E value \in Picks(SelectOptions[field]) : SelectChange(field, value)
  \/ \E field \in DOMAIN ChipItems :
       \E item \in Picks(ChipItems[field]) : ToggleMultiSelect(item, field)
  \/ \E p \in 1..Len(PRESETS) : HandleApplyPreset(p)
  \/ HandleGenerateJson
  \/ HandleReset
  \/ HandleSelfTest
  \/ HandleDownloadJson

Spec == Init /\ [][Next]_vars

\* --------------------------------------------------------- theme controller

\* applyTheme: the data-theme attribute and the effective theme it sets.
ApplyTheme(t) ==
  IF t = "light" THEN [dataTheme |-> "light", effectiveTheme |-> "light"]
  ELSE [dataTheme |-> NULL, effectiveTheme |-> "dark"]

\* mediaQuery.matches ? 'dark' : 'light'
SystemTheme(matches) == IF matches THEN "dark" ELSE "light"

\* A listener list with its first entry equal to l removed.
RECURSIVE RemoveListener(_, _)
RemoveListener(ls, l) ==
  IF ls = <<>> THEN <<>>
  ELSE IF Head(ls) = l THEN Tail(ls)
       ELSE <<Head(ls)>> \o RemoveListener(Tail(ls), l)

\* An effect that returns no cleanup: the listener is never removed.
CleanupNone(prevTheme, ls) == ls

\* The cleanup the effect of prevTheme returned, run before the next effect:
\* only the 'system' branch returns one, and it removes its listener.
Cleanup(prevTheme, ls) ==
  IF prevTheme = "system" THEN RemoveListener(ls, prevTheme) ELSE ls

\* The body of the effect for theme t, on the listeners ls.
RunEffect(t, ls) ==
  IF t = "system"
  THEN /\ dataTheme' = ApplyTheme(SystemTheme(osDark)).dataTheme
       /\ effectiveTheme' = ApplyTheme(SystemTheme(osDark)).effectiveTheme
       /\ listeners' = Append(ls, t)
  ELSE /\ dataTheme' = ApplyTheme(t).dataTheme
       /\ effectiveTheme' = ApplyTheme(t).effectiveTheme
       /\ listeners' = ls

\* The effect of the first render.
MountEffect ==
  /\ ~mounted
  /\ mounted' = TRUE
  /\ RunEffect(theme, listeners)
  /\ hist' = Hist("mount")
  /\ UNCHANGED <<theme, storedTheme, osDark, budget>>
  /\ UNCHANGED <<formState, generatedJson, validationStatus>>
  /\ UNCHANGED copyVars

\* handleSetTheme, with the render it causes: the effect depends on theme
\* and runs again, after the cleanup of the last one, only when theme changed.
HandleSetTheme(newTheme) ==
  /\ mounted
  /\ theme' = newTheme
  /\ storedTheme' = newTheme
  /\ IF newTheme = theme
     THEN UNCHANGED <<dataTheme, effectiveTheme, listeners>>
     ELSE RunEffect(newTheme, Cleanup(theme, listeners))
  /\ hist' = Hist("theme")
  /\ UNCHANGED <<osDark, mounted, budget>>
  /\ UNCHANGED <<formState, generatedJson, validationStatus>>
  /\ UNCHANGED copyVars

\* What the listeners ls, called in order with e.matches, leave of the
\* attribute and the effective theme in cur (handleSystemThemeChange tests
\* the theme its closure captured).
RECURSIVE NotifyListeners(_, _, _)
NotifyListeners(ls, matches, cur) ==
  IF ls = <<>> THEN cur
  ELSE NotifyListeners(Tail(ls), matches,
         IF Head(ls) = "system" THEN ApplyTheme(SystemTheme(matches)) ELSE cur)

\* The OS color scheme changes: the media query fires its change event.
SystemThemeChange ==
  /\ mounted
  /\ osDark' = ~osDark
  /\ LET after == NotifyListeners(listeners, osDark',
                    [dataTheme |-> dataTheme, effectiveTheme |-> effectiveTheme]) IN
       /\ dataTheme' = after.dataTheme
       /\ effectiveTheme' = after.effectiveTheme
  /\ hist' = Hist("oschange")
  /\ UNCHANGED <<theme, storedTheme, listeners, mounted, budget>>
  /\ UNCHANGED <<formState, generatedJson, validationStatus>>
  /\ UNCHANGED copyVars

\* --------------------------------------------------------------- copy label

\* The delay of the setTimeout that reverts the label, in ms.
CopiedDelay == 2000

\* The step of the clock: half the delay.
TickMs == CopiedDelay \div 2

\* handleCopyJson: the button is rendered when generatedJson is truthy and
\* disabled while the label is 'Copied!'.
HandleCopyJson ==
  /\ mounted /\ ~Falsy(generatedJson)
  /\ copyButtonText # "Copied!"
  /\ budget > 0
  /\ budget' = budget - 1
  /\ pendingWrites' = Append(pendingWrites, generatedJson.text)
  /\ UNCHANGED <<copyButtonText, clipboard, timers, hist>>
  /\ UNCHANGED <<formState, generatedJson, validationStatus>>
  /\ UNCHANGED themeVars

\* A sequence without its i-th entry.
RemoveAt(s, i) == SubSeq(s, 1, i - 1) \o SubSeq(s, i + 1, Len(s))

\* A clipboard write resolves: the then-callback sets the label and starts
\* the timer that reverts it.
WriteResolved(i) ==
  /\ clipboard' = pendingWrites[i]
  /\ pendingWrites' = RemoveAt(pendingWrites, i)
  /\ copyButtonText' = "Copied!"
  /\ timers' = Append(timers, CopiedDelay)
  /\ UNCHANGED <<budget, hist>>
  /\ UNCHANGED <<formState, generatedJson, validationStatus>>
  /\ UNCHANGED themeVars

\* A clipboard write is rejected: the promise has no catch, nothing changes.
WriteRejected(i) ==
  /\ pendingWrites' = RemoveAt(pendingWrites, i)
  /\ UNCHANGED <<copyButtonText, clipboard, timers, budget, hist>>
  /\ UNCHANGED <<formState, generatedJson, validationStatus>>
  /\ UNCHANGED themeVars

\* Time passes while timers are pending and none is due.
Tick ==
  /\ timers # <<>>
  /\ \A i \in 1..Len(timers) : timers[i] >= TickMs
  /\ timers' = [i \in 1..Len(timers) |-> timers[i] - TickMs]
  /\ UNCHANGED <<copyButtonText, pendingWrites, clipboard, budget, hist>>
  /\ UNCHANGED <<formState, generatedJson, validationStatus>>
  /\ UNCHANGED themeVars

\* The oldest timer is due: its callback sets the label back.
TimerFires ==
  /\ timers # <<>> /\ Head(timers) = 0
  /\ copyButtonText' = "Copy"
  /\ timers' = Tail(timers)
  /\ UNCHANGED <<pendingWrites, clipboard, budget, hist>>
  /\ UNCHANGED <<formState, generatedJson, validationStatus>>
  /\ UNCHANGED themeVars

\* ------------------------------------------------------------ the whole UI

\* What localStorage may hold for the theme when the page loads.
StoredThemes == {NULL, "dark", "light", "system"}

\* The first render: theme is the stored preference or 'dark', and the
\* effective theme starts as the theme.
Loaded(inputs) ==
  /\ formState = initialState
  /\ generatedJson = NullJson
  /\ validationStatus = "unchecked"
  /\ copyButtonText = "Copy"
  /\ storedTheme \in StoredThemes
  /\ theme = (IF storedTheme = NULL THEN "dark" ELSE storedTheme)
  /\ effectiveTheme = theme
  /\ dataTheme = NULL
  /\ osDark \in BOOLEAN
  /\ listeners = <<>>
  /\ mounted = FALSE
  /\ pendingWrites = <<>>
  /\ clipboard = <<>>
  /\ timers = <<>>
  /\ budget = inputs
  /\ hist = Hist("init")

\* The theme controller beside the form workflow.
InitTheme == Loaded(MaxUIEdits)

NextTheme ==
  \/ MountEffect
  \/ \E newTheme \in {"dark", "light", "system"} : HandleSetTheme(newTheme)
  \/ SystemThemeChange
  \/ Next

SpecTheme == InitTheme /\ [][NextTheme]_vars

\* The copy label beside the form workflow.
InitCopy == Started(MaxEdits)

NextCopy ==
  \/ HandleCopyJson
  \/ \E i \in 1..Len(pendingWrites) : WriteResolved(i)
  \/ \E i \in 1..Len(pendingWrites) : WriteRejected(i)
  \/ Tick
  \/ TimerFires
  \/ Next

SpecCopy == InitCopy /\ [][NextCopy]_vars

\* Every operation of the page.
InitUI == Loaded(MaxUIEdits)

NextUI ==
  \/ MountEffect
  \/ \E newTheme \in {"dark", "light", "system"} : HandleSetTheme(newTheme)
  \/ SystemThemeChange
  \/ HandleCopyJson
  \/ \E i \in 1..Len(pendingWrites) : WriteResolved(i)
  \/ \E i \in 1..Len(pendingWrites) : WriteRejected(i)
  \/ Tick
  \/ TimerFires
  \/ Next

SpecUI == InitUI /\ [][NextUI]_vars

\* ------------------------------------------------- the validator on any text

\* The members of the nested objects, by key.
CameraMember(k) == [k |-> <<k>>, v |-> JStr(<<"Static">>)]
SoundscapeMember(k) ==
  [k |-> <<k>>, v |-> IF k = "secondary" THEN JArr(<<>>) ELSE JStr(<<"Rain">>)]

\* The objects with the members keys[i], i in some set of positions.
RECURSIVE Selected(_, _)
Selected(members, keep) ==
  IF members = <<>> THEN <<>>
  ELSE (IF Len(members) \in keep THEN Selected(SubSeq(members, 1, Len(members) - 1), keep)
                                      \o <<members[Len(members)]>>
        ELSE Selected(SubSeq(members, 1, Len(members) - 1), keep))

ObjectsOver(members) ==
  {JObj(Selected(members, keep)) : keep \in SUBSET (1..Len(members))}

\* What the camera or the soundscape of a text may be: absent, no object,
\* or an object with any of its three keys.
NestedVariants(members) ==
  {JUndefined, JLit("null"), JLit("true"), JNum(<<"5">>), JStr(<<"x">>),
   JArr(<<>>), JArr(<<JStr(<<"movement">>)>>)}
  \cup ObjectsOver(members)

CameraVariants ==
  NestedVariants(<<CameraMember("movement"), CameraMember("angle"),
                   CameraMember("focus")>>)

SoundscapeVariants ==
  NestedVariants(<<SoundscapeMember("primary"), SoundscapeMember("secondary"),
                   SoundscapeMember("quality")>>)

\* The seven members of a prompt with the given camera and soundscape.
PromptMembers(camera, soundscape) ==
  << [k |-> <<"title">>, v |-> JStr(<<"A">>)],
     [k |-> <<"description">>, v |-> JStr(<<"An ASMR-style video about: ", "A", ".">>)],
     [k |-> <<"style">>, v |-> JStr(<<"ASMR">>)],
     [k |-> <<"mood">>, v |-> JArr(<<>>)],
     [k |-> <<"camera">>, v |-> camera],
     [k |-> <<"soundscape">>, v |-> soundscape],
     [k |-> <<"visual_effects">>, v |-> JArr(<<>>)] >>

FullCamera == JObj(<<CameraMember("movement"), CameraMember("angle"), CameraMember("focus")>>)
FullSoundscape ==
  JObj(<<SoundscapeMember("primary"), SoundscapeMember("secondary"),
         SoundscapeMember("quality")>>)

\* The values whose serialisations are given to the validator.
ValidatorValues ==
  \* every camera with every soundscape
  {JObj(PromptMembers(c, s)) : c \in CameraVariants, s \in SoundscapeVariants}
  \* any of the top-level keys missing
  \cup ObjectsOver(PromptMembers(FullCamera, FullSoundscape))
  \* no object at the top
  \cup {JLit("null"), JLit("true"), JNum(<<"5">>), JStr(<<"title">>),
        JArr(<<>>), JArr(<<JObj(PromptMembers(FullCamera, FullSoundscape))>>)}
  \* a key written twice (the last one counts), and a key more
  \cup {JObj(PromptMembers(FullCamera, FullSoundscape)
             \o <<[k |-> <<"camera">>, v |-> JNum(<<"5">>)]>>),
        JObj(<<[k |-> <<"camera">>, v |-> JNum(<<"5">>)]>>
             \o PromptMembers(FullCamera, FullSoundscape)),
        JObj(PromptMembers(FullCamera, FullSoundscape)
             \o <<[k |-> <<"extra">>, v |-> JLit("null")]>>)}

Prefixes(text) == {SubSeq(text, 1, n) : n \in 0..Len(text)}

\* The texts given to the validator: the serialisations above, every
\* truncation of two generated texts (the empty text among them), and some
\* texts that are no JSON.
ValidatorInputs ==
  {JsonStringify(v) : v \in ValidatorValues}
  \cup Prefixes(JsonStringify(BuildJson([initialState EXCEPT !.idea = <<QUOTE>>])))
  \cup Prefixes(JsonStringify(BuildJson(Merge(initialState, PRESETS[1].settings))))
  \cup {<<"{", "}", "{", "}">>, <<"[", "null", ",", "]">>, <<"0", "1">>,
        <<QUOTE, BACKSLASH, "x", QUOTE>>, <<QUOTE, "\n", QUOTE>>,
        <<"{", QUOTE, "camera", QUOTE, "}">>, <<"Calm">>, <<" ", "null", "\n">>}

InitValidator ==
  /\ formState = initialState
  /\ generatedJson \in {JsonText(text) : text \in ValidatorInputs}
  /\ validationStatus = "unchecked"
  /\ copyButtonText = "Copy"
  /\ storedTheme = NULL
  /\ theme = "dark"
  /\ effectiveTheme = "dark"
  /\ dataTheme = NULL
  /\ osDark = TRUE
  /\ listeners = <<>>
  /\ mounted = TRUE
  /\ pendingWrites = <<>>
  /\ clipboard = <<>>
  /\ timers = <<>>
  /\ budget = 0
  /\ hist = Hist("init")

NextValidator == RunSelfTest

SpecValidator == InitValidator /\ [][NextValidator]_vars

\* ------------------------------------------------------------ properties

\* C1: a self-test of the generated JSON always finds it valid: whatever
\* the form holds when Generate JSON is triggered, Run Self-Test then sets
\* the validation status to 'valid'.
C1_GeneratedJsonIsValid ==
  hist.op = "selftest" => validationStatus = "valid"

\* A self-test has run on a text in which a character of the idea had to be
\* escaped.
C1_Witness ==
  /\ hist.op = "selftest"
  /\ validationStatus = "valid"
  /\ Includes(generatedJson.text, BACKSLASH)

\* C2: generating right after a preset was applied to a form S yields an
\* object whose mood, camera, soundscape and visual_effects are the values
\* of the preset, whose title is the idea of S, and every field the preset
\* does not name is as it was in S.
C2_PresetThenGenerate ==
  hist.op = "presetgen" =>
    LET P == PRESETS[hist.p].settings
        S == hist.pre
        r == JsonParse(generatedJson.text)
        camera == GetProp(r.val, "camera")
        soundscape == GetProp(r.val, "soundscape") IN
    /\ r.ok
    /\ GetProp(r.val, "mood") = JStrings(P.moods)
    /\ GetProp(camera, "movement") = JStr(<<P.cameraMovement>>)
    /\ GetProp(camera, "angle") = JStr(<<P.cameraAngle>>)
    /\ GetProp(camera, "focus") = JStr(<<P.cameraFocus>>)
    /\ GetProp(soundscape, "primary") = JStr(<<P.soundscapePrimary>>)
    /\ GetProp(soundscape, "secondary") = JStrings(P.soundscapeSecondary)
    /\ GetProp(soundscape, "quality") = JStr(<<P.soundscapeQuality>>)
    /\ GetProp(r.val, "visual_effects") = JStrings(P.visualEffects)
    /\ GetProp(r.val, "title") = JStr(S.idea)
    /\ \A f \in DOMAIN S \ DOMAIN P : formState[f] = S[f]

\* JSON was generated right after a preset was applied to a form with an
\* idea typed and other values than the preset's.
C2_Witness ==
  /\ hist.op = "presetgen"
  /\ hist.pre.idea # <<>>
  /\ ~generatedJson.isNull
  /\ hist.pre.cameraMovement # PRESETS[hist.p].settings.cameraMovement

\* C3: Reset leaves the form at its defaults (idea empty, no mood, secondary
\* sound or visual effect, every select at the first entry of its option
\* list), the generated JSON null and the validation status 'unchecked'.
C3_ResetRestoresDefaults ==
  hist.op = "reset" =>
    /\ formState.idea = <<>>
    /\ \A field \in DOMAIN ChipItems : formState[field] = <<>>
    /\ \A field \in DOMAIN SelectOptions :
         formState[field] = SelectOptions[field][1]
    /\ DOMAIN formState = {"idea"} \cup DOMAIN ChipItems \cup DOMAIN SelectOptions
    /\ generatedJson = NullJson
    /\ validationStatus = "unchecked"

\* The form has been reset after every edit of the behaviour was made.
C3_Witness == hist.op = "reset" /\ budget = 0

\* C4: every single-valued field holds an entry of its option list, and no
\* multi-valued field holds an entry twice.
C4_OptionsAndNoDuplicates ==
  /\ \A field \in DOMAIN SelectOptions :
       formState[field] \in Range(SelectOptions[field])
  /\ \A field \in DOMAIN ChipItems : NoDuplicates(formState[field])

\* A chip has been toggled in a field a preset had filled.
C4_Witness ==
  /\ hist.op = "toggle"
  /\ Len(hist.prior) >= 2
  /\ formState.cameraMovement # CAMERA_MOVEMENTS[1]

\* C5: the validation status changes to 'valid' or 'invalid' only in a
\* self-test; every Generate and every Reset leaves it 'unchecked'; no
\* other step changes it.
C5_StatusChangesOnlyByItsTriggers ==
  [][/\ (HandleGenerateJson \/ HandleReset) => validationStatus' = "unchecked"
     /\ validationStatus' # validationStatus =>
          \/ validationStatus' \in {"valid", "invalid"} /\ HandleSelfTest
          \/ validationStatus' = "unchecked" /\ (HandleGenerateJson \/ HandleReset)
    ]_vars

\* The idea has been edited after a self-test, and the status is still the
\* one the self-test set.
C5_Witness == hist.op = "input" /\ validationStatus = "valid"

\* The text handleSelfTest reads is JSON for an object that has the seven
\* top-level keys, whose camera is an object with movement, angle and focus
\* and whose soundscape is an object with primary, secondary and quality.
HasMember(v, key) == v.t = "obj" /\ \E i \in 1..Len(v.items) : v.items[i].k = <<key>>

LastMember(v, key) ==
  v.items[CHOOSE i \in 1..Len(v.items) :
            /\ v.items[i].k = <<key>>
            /\ \A j \in (i + 1)..Len(v.items) : v.items[j].k # <<key>>].v

Conforms(text) ==
  LET r == JsonParse(text) IN
  /\ r.ok
  /\ \A key \in Range(requiredKeys) : HasMember(r.val, key)
  /\ \A key \in {"movement", "angle", "focus"} :
       HasMember(LastMember(r.val, "camera"), key)
  /\ \A key \in {"primary", "secondary", "quality"} :
       HasMember(LastMember(r.val, "soundscape"), key)

C8_EffectiveThemeFollowsPreference ==
  /\ [](mounted =>
         /\ theme \in {"dark", "light"} => effectiveTheme = theme
         /\ theme = "system" => effectiveTheme = SystemTheme(osDark))
  /\ [][osDark' # osDark /\ theme \in {"dark", "light"}
          => effectiveTheme' = effectiveTheme]_vars

\* The OS color scheme has just changed to light under the preference
\* 'system', and the effective theme followed.
C8_Witness ==
  /\ hist.op = "oschange"
  /\ theme = "system" /\ ~osDark /\ effectiveTheme = "light"

\* C9: the label stays 'Copied!' until the delay of the copy completed last
\* has elapsed: while a revert timer is pending the label is not 'Copy'.
C9_LabelOutlastsLatestCopy ==
  timers # <<>> => copyButtonText = "Copied!"

\* C6 as claimed: toggling the same chip twice in a row returns the field
\* to its prior contents, wherever the item stood.
C6_ToggleTwiceRestores ==
  hist.op = "toggle" /\ hist.n = 2 => formState[hist.field] = hist.prior

\* C6 as amended: toggling the same chip twice in a row returns the field
\* to the same entries; they are in the prior order when the item was
\* absent or was the last entry, and otherwise the item has moved to the
\* end, the other entries keeping their order.
C6_ToggleTwiceKeepsEntries ==
  hist.op = "toggle" /\ hist.n = 2 =>
    LET prior == hist.prior
        current == formState[hist.field]
        wasLast == prior # <<>> /\ prior[Len(prior)] = hist.item IN
    /\ Range(current) = Range(prior)
    /\ Len(current) = Len(prior)
    /\ (~Includes(prior, hist.item) \/ wasLast) => current = prior
    /\ Includes(prior, hist.item) =>
         /\ current[Len(current)] = hist.item
         /\ SubSeq(current, 1, Len(current) - 1) = FilterOut(prior, hist.item)

\* A chip selected before another one has been toggled off and on again.
C6_Witness ==
  /\ hist.op = "toggle" /\ hist.n = 2
  /\ Includes(hist.prior, hist.item)
  /\ hist.prior[Len(hist.prior)] # hist.item

\* C10: every entry of a multi-valued field is one of the chips of its
\* group, so the user can toggle it off.
C10_EntriesHaveChips ==
  \A field \in DOMAIN ChipItems :
    Range(formState[field]) \subseteq Range(ChipItems[field])

====
